---- MODULE Spec2Model ----
(***************************************************************************)
(* State-machine model of class pca (src/AmpScan/pca.py): the statistical  *)
(* shape-model pipeline setBaseline / importFolder / register / pca /      *)
(* newShape.  One action per method call; a call either returns or raises, *)
(* and the fields it assigned before raising stay assigned.                *)
(*                                                                         *)
(* Numbers are exact rationals <<n, d>> (d > 0, lowest terms); <<0, 0>> is *)
(* the non-finite value NaN.  An instance attribute that has never been    *)
(* assigned is the empty sequence Unset, an assigned one is <<value>>.     *)
(* disk names the file system the instance runs on and lapack the sign the *)
(* numpy build gives singular vectors; no method writes them.             *)
(***************************************************************************)
EXTENDS Integers, Sequences, FiniteSets, TLC

VARIABLES shapes, baseline, registered, X,
          pca_mean, pca_U, pca_S, pca_V, pc_weights, pc_stdevs,
          op, err, ret, disk, lapack,
          rens, axes, cams, renderers

vars == <<shapes, baseline, registered, X,
          pca_mean, pca_U, pca_S, pca_V, pc_weights, pc_stdevs,
          op, err, ret, disk, lapack,
          rens, axes, cams, renderers>>

modelVars == <<pca_mean, pca_U, pca_S, pca_V, pc_weights, pc_stdevs>>

\* the fields of a vtkRenWin (src/ampscan/vis/vis.py): the renderer list,
\* the number of cube-axes actors in self.axes, self.cams, and the number of
\* renderers the underlying vtkRenderWindow holds
winVars == <<rens, axes, cams, renderers>>

pcaVars == <<shapes, baseline, registered, X, modelVars, disk, lapack>>

\* ------------------------------------------------------------------ bounds
\* longest coefficient vector handed to newShape
MaxCoef == 3
\* largest number of viewports asked of a window
MaxViewports == 5
\* self.axes is only ever appended to: calls stop when it holds this many
MaxAxes == 8

\* ------------------------------------------------------- attribute values
Unset == <<>>
Some(v) == <<v>>
IsSet(f) == Len(f) = 1
Val(f) == f[1]

\* ---------------------------------------------------------------- numbers
NaN == <<0, 0>>
Zero == <<0, 1>>
IsFinite(q) == q[2] # 0
Abs(i) == IF i < 0 THEN -i ELSE i

RECURSIVE Gcd(_, _)
Gcd(a, b) == IF b = 0 THEN a ELSE Gcd(b, a % b)

Norm(n, d) ==
    IF n = 0 THEN Zero
    ELSE IF d = 1 THEN <<n, 1>>
    ELSE LET g == Gcd(Abs(n), d) IN <<n \div g, d \div g>>

Rat(i) == <<i, 1>>

NAdd(a, b) ==
    IF ~IsFinite(a) \/ ~IsFinite(b) THEN NaN
    ELSE Norm(a[1] * b[2] + b[1] * a[2], a[2] * b[2])

NSub(a, b) ==
    IF ~IsFinite(a) \/ ~IsFinite(b) THEN NaN
    ELSE Norm(a[1] * b[2] - b[1] * a[2], a[2] * b[2])

NMul(a, b) ==
    IF ~IsFinite(a) \/ ~IsFinite(b) THEN NaN
    ELSE Norm(a[1] * b[1], a[2] * b[2])

NDivInt(a, n) ==
    IF ~IsFinite(a) THEN NaN ELSE Norm(a[1], a[2] * n)

RECURSIVE ISqrtFrom(_, _)
ISqrtFrom(n, r) == IF (r + 1) * (r + 1) > n THEN r ELSE ISqrtFrom(n, r + 1)

\* square root of a non-negative rational, rounded down onto the grid 1/d
NSqrt(a) ==
    IF ~IsFinite(a) THEN NaN ELSE Norm(ISqrtFrom(a[1] * a[2], 0), a[2])

RECURSIVE NSum(_)
NSum(v) == IF v = <<>> THEN Zero ELSE NAdd(v[1], NSum(Tail(v)))

AllFinite(m) == \A i \in 1..Len(m) : \A j \in 1..Len(m[i]) : IsFinite(m[i][j])

\* ------------------------------------------------- the world outside pca
\* Mesh source: the vertex array (V x 3) stored in each file.
FileVert(f) ==
    CASE f = "a1.stl" -> << <<Rat(1), Rat(0), Rat(0)>> >>
      [] f = "b1.stl" -> << <<Rat(2), Rat(0), Rat(1)>> >>
      [] f = "c2.stl" -> << <<Rat(0), Rat(1), Rat(0)>>, <<Rat(1), Rat(0), Rat(2)>> >>
      [] f = "n1.stl" -> << <<Rat(1), NaN, Rat(0)>> >>
      [] f = "x1.stl" -> << <<Rat(0), Rat(0), Rat(1)>> >>
      [] f = "e0.stl" -> << >>
      [] f = "s1.stl" -> << <<Rat(0), Rat(0), Rat(0)>>, <<Rat(1), Rat(0), Rat(0)>>,
                            <<Rat(0), Rat(1), Rat(0)>>, <<Rat(0), Rat(0), Rat(1)>> >>
      [] f = "s2.stl" -> << <<Rat(0), Rat(0), Rat(0)>>, <<Rat(2), Rat(0), Rat(0)>>,
                            <<Rat(0), Rat(1), Rat(0)>>, <<Rat(0), Rat(0), Rat(1)>> >>
      [] f = "s3.stl" -> << <<Rat(0), Rat(0), Rat(0)>>, <<Rat(1), Rat(0), Rat(0)>>,
                            <<Rat(0), Rat(2), Rat(0)>>, <<Rat(0), Rat(0), Rat(1)>> >>

\* os.listdir(path) for the directories the model imports from
ListDir(path) ==
    CASE path = "empty/"  -> <<"readme.txt">>
      [] path = "solo/"   -> <<"a1.stl">>
      [] path = "mixed/"  -> <<"a1.stl", "notes.txt", "c2.stl", "b1.stl">>
      [] path = "nan/"    -> <<"a1.stl", "n1.stl">>
      [] path = "noconv/" -> <<"a1.stl", "x1.stl", "b1.stl">>
      [] path = "e2e/"    -> <<"s1.stl", "s2.stl", "s3.stl">>

\* the directories and the baseline files present on the disk
Dirs ==
    IF disk = "e2e" THEN {"empty/", "e2e/"}
    ELSE {"empty/", "solo/", "mixed/", "nan/", "noconv/"}
BaselineFiles ==
    IF disk = "e2e" THEN {"s1.stl", "e0.stl"} ELSE {"a1.stl", "c2.stl"}
\* heights the corpus is sliced at
Heights == {1, 2}
\* targets on which the registration collaborator does not converge
NonConvergent == {"x1.stl"}

\* AmpObject(path, 'limb', unify=unify): the mesh loaded from a file
AmpObject(f, unify) == [file |-> f, vert |-> FileVert(f)]

\* coordinate a <= h for an integer h; a NaN coordinate compares False
NLeqInt(a, h) == IsFinite(a) /\ a[1] <= h * a[2]

\* AmpObject.planarTrim(height): the geometry beyond the height is removed
\* (the vertices with z above it), in place
planarTrim(s, height) ==
    [s EXCEPT !.vert = SelectSeq(s.vert, LAMBDA v : NLeqInt(v[3], height))]

EndsWith(f, ext) ==
    CASE f = "a1.stl" -> ext = ".stl"
      [] f = "b1.stl" -> ext = ".stl"
      [] f = "c2.stl" -> ext = ".stl"
      [] f = "n1.stl" -> ext = ".stl"
      [] f = "x1.stl" -> ext = ".stl"
      [] f = "e0.stl" -> ext = ".stl"
      [] f = "s1.stl" -> ext = ".stl"
      [] f = "s2.stl" -> ext = ".stl"
      [] f = "s3.stl" -> ext = ".stl"
      [] f = "notes.txt" -> ext = ".txt"
      [] f = "readme.txt" -> ext = ".txt"
      [] OTHER -> FALSE

\* registration(baseline, t, fixBrim=True, steps=10): .reg is the target
\* resampled onto the baseline's vertices; a defective collaborator hands
\* the target back on its own topology.  It does not converge on the
\* NonConvergent targets nor when either mesh has no vertex.
RegConverges(b, t) ==
    t.file \notin NonConvergent /\ Len(t.vert) > 0 /\ Len(b.vert) > 0

registration(b, t, defect) ==
    IF defect THEN [vert |-> t.vert]
    ELSE [vert |-> [i \in 1..Len(b.vert) |->
                       t.vert[((i - 1) % Len(t.vert)) + 1]]]

\* ------------------------------------------------------------------ numpy
\* A 2-D array is [shape |-> <<r, c>>, rows |-> r rows of c numbers]; a 1-D
\* array of numbers is a plain sequence.  X alone can also be a 1-D array
\* ([shape |-> <<n>>, rows |-> its n elements]).
Min(a, b) == IF a < b THEN a ELSE b

\* r.vert.flatten(): vertex-major, then x, y, z
Flatten(vert) ==
    [i \in 1..(3 * Len(vert)) |-> vert[((i - 1) \div 3) + 1][((i - 1) % 3) + 1]]

Ragged(cols) == \E i, j \in 1..Len(cols) : Len(cols[i]) # Len(cols[j])

\* np.array(cols).T for a list of equally long 1-D arrays (or the empty list)
NpArrayT(cols) ==
    IF cols = <<>> THEN [shape |-> <<0>>, rows |-> <<>>]
    ELSE LET D == Len(cols[1])
             N == Len(cols)
         IN [shape |-> <<D, N>>,
             rows |-> [d \in 1..D |-> [n \in 1..N |-> cols[n][d]]]]

\* np.array(cols).T for a ragged list, numpy < 1.24: a 1-D object array
NpObjectArray(cols) == [shape |-> <<Len(cols)>>, rows |-> cols]

\* numpy broadcasting of two axis lengths
BroadcastOK(m, n) == m = n \/ m = 1 \/ n = 1
BroadcastLen(m, n) == IF m = 1 THEN n ELSE m

\* M * v for a 2-D array M and a 1-D array v (broadcast along the last axis)
MulCols(M, v) ==
    LET c == M.shape[2]
        w == BroadcastLen(c, Len(v))
    IN [shape |-> <<M.shape[1], w>>,
        rows |-> [d \in 1..M.shape[1] |->
                    [k \in 1..w |->
                        NMul(M.rows[d][IF c = 1 THEN 1 ELSE k],
                             v[IF Len(v) = 1 THEN 1 ELSE k])]]]

\* M.sum(axis=1)
SumAxis1(M) == [d \in 1..M.shape[1] |-> NSum(M.rows[d])]

\* a + b for two 1-D arrays
AddVec(a, b) ==
    [i \in 1..BroadcastLen(Len(a), Len(b)) |->
        NAdd(a[IF Len(a) = 1 THEN 1 ELSE i], b[IF Len(b) = 1 THEN 1 ELSE i])]

\* mutant of MeanAxis1: the row sums are not divided by the column count
MeanAxis1Undivided(M) == [d \in 1..M.shape[1] |-> NSum(M.rows[d])]

\* X.mean(axis=1) of a 2-D array
MeanAxis1(M) ==
    [d \in 1..M.shape[1] |-> NDivInt(NSum(M.rows[d]), M.shape[2])]

\* X - m[:, None]
SubCol(M, m) ==
    [shape |-> M.shape,
     rows |-> [d \in 1..M.shape[1] |->
                 [n \in 1..M.shape[2] |-> NSub(M.rows[d][n], m[d])]]]

\* np.std(W, axis=1): sqrt of the mean squared deviation (divisor N)
StdAxis1(W) ==
    [k \in 1..W.shape[1] |->
        LET mu == NDivInt(NSum(W.rows[k]), W.shape[2])
            sq == [n \in 1..W.shape[2] |->
                     NMul(NSub(W.rows[k][n], mu), NSub(W.rows[k][n], mu))]
        IN NSqrt(NDivInt(NSum(sq), W.shape[2]))]

\* np.dot(np.diag(S), V)
DiagDot(S, V) ==
    [shape |-> V.shape,
     rows |-> [k \in 1..V.shape[1] |->
                 [n \in 1..V.shape[2] |-> NMul(S[k], V.rows[k][n])]]]

\* np.linalg.svd(Xc, full_matrices=False) on a finite D x N array.  LAPACK
\* is outside the repository: the model keeps what numpy guarantees (U is
\* D x K with orthonormal columns, S is non-negative and descending of
\* length K, V is K x N with orthonormal rows, K = min(D, N)) and takes the
\* coordinate vectors for U and V; S ends in 0 when N <= D, the centred
\* columns being linearly dependent.  The sign of a singular vector pair
\* is not determined by the decomposition: it is the one the library
\* build returns, lapack.
Svd(Xc) ==
    LET D == Xc.shape[1]
        N == Xc.shape[2]
        K == Min(D, N)
        unit(i, j) == IF i = j THEN Rat(lapack) ELSE Zero
    IN [U |-> [shape |-> <<D, K>>,
               rows |-> [d \in 1..D |-> [k \in 1..K |-> unit(d, k)]]],
        S |-> [k \in 1..K |-> Rat(N - k)],
        V |-> [shape |-> <<K, N>>,
               rows |-> [k \in 1..K |-> [n \in 1..N |-> unit(k, n)]]]]

\* -------------------------------------------------------------- inputs
\* signs a library build may give the singular vectors
Signs == {1, -1}
Scales == {"eigs", "std", "other"}
\* coefficient vectors of every length 1..MaxCoef: all zero, all one, and
\* one followed by zeros
Zeros(L) == [k \in 1..L |-> Zero]
Ones(L) == [k \in 1..L |-> Rat(1)]
FirstUnit(L) == [k \in 1..L |-> IF k = 1 THEN Rat(1) ELSE Zero]
Coefs == UNION {{Zeros(L), Ones(L), FirstUnit(L)} : L \in 1..MaxCoef}

\* ---------------------------------------------------------- __init__
Constructed ==
    /\ shapes = <<>>
    /\ baseline = Unset
    /\ registered = Unset
    /\ X = Unset
    /\ pca_mean = Unset
    /\ pca_U = Unset
    /\ pca_S = Unset
    /\ pca_V = Unset
    /\ pc_weights = Unset
    /\ pc_stdevs = Unset
    /\ op = "init"
    /\ err = "none"
    /\ ret = Unset

\* vtk.vtkRenderer(): the whole window as viewport, default background
NewRenderer == [viewport |-> <<Zero, Rat(1)>>, background |-> "default"]

\* vtkRenWin.__init__: one renderer, added to the window; self.cams is
\* never assigned
WinConstructed ==
    /\ rens = <<NewRenderer>>
    /\ axes = 0
    /\ cams = Unset
    /\ renderers = 1

\* a fresh instance on the bench disk
Init == disk = "bench" /\ lapack = 1 /\ Constructed /\ WinConstructed

\* a fresh instance on the disk of the end-to-end scenario, on any build
InitScenario ==
    disk = "e2e" /\ lapack \in Signs /\ Constructed /\ WinConstructed

\* a new window, next to a fresh pca instance that is never called
InitWin == Init

\* ------------------------------------------------------- setBaseline
SetBaseline(f) ==
    /\ baseline' = Some(AmpObject(f, TRUE))
    /\ op' = "setBaseline"
    /\ err' = "none"
    /\ ret' = Unset
    /\ UNCHANGED <<shapes, registered, X, modelVars, disk, lapack, winVars>>

\* ------------------------------------------------------ importFolder
\* mutant of ImportList: the new meshes are appended to the stored ones
ImportListAppend(path, unify) ==
    LET fs == SelectSeq(ListDir(path), LAMBDA f : EndsWith(f, ".stl"))
    IN shapes \o [n \in 1..Len(fs) |-> AmpObject(fs[n], unify)]

ImportList(path, unify) ==
    LET fs == SelectSeq(ListDir(path), LAMBDA f : EndsWith(f, ".stl"))
    IN [n \in 1..Len(fs) |-> AmpObject(fs[n], unify)]

ImportFolder(path, unify) ==
    /\ shapes' = ImportList(path, unify)
    /\ op' = "importFolder"
    /\ err' = "none"
    /\ ret' = Unset
    /\ UNCHANGED <<baseline, registered, X, modelVars, disk, lapack, winVars>>

\* -------------------------------------------------------- sliceFiles
\* mutant of SliceList: the trimmed meshes are added after the stored ones
SliceListAppend(height) ==
    shapes \o [n \in 1..Len(shapes) |-> planarTrim(shapes[n], height)]

\* for s in self.shapes: s.planarTrim(height)
SliceList(height) == [n \in 1..Len(shapes) |-> planarTrim(shapes[n], height)]

SliceFiles(height) ==
    /\ shapes' = SliceList(height)
    /\ op' = "sliceFiles"
    /\ err' = "none"
    /\ ret' = Unset
    /\ UNCHANGED <<baseline, registered, X, modelVars, disk, lapack, winVars>>

\* ---------------------------------------------------------- register
\* mutant of RegisterList: results collected last-completed-first
RegisterListReversed(b, ss, defect) ==
    [n \in 1..Len(ss) |-> registration(b, ss[Len(ss) + 1 - n], defect)]

\* line 42: the list comprehension over self.shapes
RegisterList(b, ss, defect) ==
    [n \in 1..Len(ss) |-> registration(b, ss[n], defect)]

\* line 43: the list of flattened vertex arrays
RegisterCols(regs) == [n \in 1..Len(regs) |-> Flatten(regs[n].vert)]

\* mutant of RegisterRaise: self.registered was emptied before the loop
RegisterRaiseEmptied(e) ==
    [err |-> e, registered |-> Some(<<>>), X |-> X]

\* line 42 raises: nothing has been assigned yet
RegisterRaise(e) == [err |-> e, registered |-> registered, X |-> X]

\* What one call of register leaves behind.  defect: the collaborator does
\* not resample; legacy: numpy < 1.24 (a ragged list becomes an object
\* array, where numpy >= 1.24 raises ValueError).
RegisterOutcome(defect, legacy) ==
    LET keep == [err |-> "none", registered |-> registered, X |-> X]
    IN IF shapes = <<>>
       THEN [keep EXCEPT !.registered = Some(<<>>), !.X = Some(NpArrayT(<<>>))]
       ELSE IF ~IsSet(baseline)
       THEN RegisterRaise("AttributeError")
       ELSE IF \E n \in 1..Len(shapes) : ~RegConverges(Val(baseline), shapes[n])
       THEN RegisterRaise("RegistrationFailure")
       ELSE LET regs == RegisterList(Val(baseline), shapes, defect)
                cols == RegisterCols(regs)
            IN IF ~Ragged(cols)
               THEN [keep EXCEPT !.registered = Some(regs),
                                 !.X = Some(NpArrayT(cols))]
               ELSE IF legacy
               THEN [keep EXCEPT !.registered = Some(regs),
                                 !.X = Some(NpObjectArray(cols))]
               ELSE [keep EXCEPT !.registered = Some(regs),
                                 !.err = "ValueError"]

Register(defect, legacy) ==
    \E r \in {RegisterOutcome(defect, legacy)} :
       /\ registered' = r.registered
       /\ X' = r.X
       /\ op' = "register"
       /\ err' = r.err
       /\ ret' = Unset
       /\ UNCHANGED <<shapes, baseline, modelVars, disk, lapack, winVars>>

\* --------------------------------------------------------------- pca
\* What one call of pca leaves behind: the fields are assigned line by
\* line, so a call that raises keeps the assignments made before.
PcaOutcome ==
    LET keep == [err |-> "none", pca_mean |-> pca_mean, pca_U |-> pca_U,
                 pca_S |-> pca_S, pca_V |-> pca_V,
                 pc_weights |-> pc_weights, pc_stdevs |-> pc_stdevs]
    IN IF ~IsSet(X)
       THEN [keep EXCEPT !.err = "AttributeError"]
       ELSE IF Len(Val(X).shape) # 2
       THEN [keep EXCEPT !.err = "AxisError"]
       ELSE LET m == MeanAxis1(Val(X))
                Xc == SubCol(Val(X), m)
            IN IF ~AllFinite(Xc.rows)
               THEN [keep EXCEPT !.err = "LinAlgError", !.pca_mean = Some(m)]
               ELSE LET d == Svd(Xc)
                        w == DiagDot(d.S, d.V)
                    IN [err |-> "none", pca_mean |-> Some(m),
                        pca_U |-> Some(d.U), pca_S |-> Some(d.S),
                        pca_V |-> Some(d.V), pc_weights |-> Some(w),
                        pc_stdevs |-> Some(StdAxis1(w))]

Pca ==
    \E r \in {PcaOutcome} :
       /\ pca_mean' = r.pca_mean
       /\ pca_U' = r.pca_U
       /\ pca_S' = r.pca_S
       /\ pca_V' = r.pca_V
       /\ pc_weights' = r.pc_weights
       /\ pc_stdevs' = r.pc_stdevs
       /\ op' = "pca"
       /\ err' = r.err
       /\ ret' = Unset
       /\ UNCHANGED <<shapes, baseline, registered, X, disk, lapack, winVars>>

\* ---------------------------------------------------------- newShape
Raise(e) == [err |-> e, ret |-> Unset]

\* line 68: return self.pca_mean + sf
AddMean(sf) ==
    IF ~IsSet(pca_mean) THEN Raise("AttributeError")
    ELSE IF ~BroadcastOK(Len(Val(pca_mean)), Len(sf)) THEN Raise("ValueError")
    ELSE [err |-> "none", ret |-> Some(AddVec(Val(pca_mean), sf))]

\* mutant of NewShapeEigs: an unfitted instance answers None instead of raising
NewShapeEigsSilent(sfs) ==
    IF ~IsSet(pca_U) THEN [err |-> "none", ret |-> Unset]
    ELSE IF ~BroadcastOK(Val(pca_U).shape[2], Len(sfs)) THEN Raise("ValueError")
    ELSE AddMean(SumAxis1(MulCols(Val(pca_U), sfs)))

\* lines 64-65: scale == 'eigs'
NewShapeEigs(sfs) ==
    IF ~IsSet(pca_U) THEN Raise("AttributeError")
    ELSE IF ~BroadcastOK(Val(pca_U).shape[2], Len(sfs)) THEN Raise("ValueError")
    ELSE AddMean(SumAxis1(MulCols(Val(pca_U), sfs)))

\* lines 66-67: scale == 'std'
NewShapeStd(sfs) ==
    IF ~IsSet(pca_U) \/ ~IsSet(pc_stdevs) THEN Raise("AttributeError")
    ELSE IF ~BroadcastOK(Val(pca_U).shape[2], Len(Val(pc_stdevs)))
    THEN Raise("ValueError")
    ELSE LET us == MulCols(Val(pca_U), Val(pc_stdevs))
         IN IF ~BroadcastOK(us.shape[2], Len(sfs)) THEN Raise("ValueError")
            ELSE AddMean(SumAxis1(MulCols(us, sfs)))

\* mutant of NewShapeOther: sf defaults to 0 for an unknown scale
NewShapeOtherDefault == AddMean(<<Zero>>)

\* any other scale: sf is never bound
NewShapeOther ==
    IF ~IsSet(pca_mean) THEN Raise("AttributeError")
    ELSE Raise("UnboundLocalError")

NewShapeOutcome(sfs, scale) ==
    IF scale = "eigs" THEN NewShapeEigs(sfs)
    ELSE IF scale = "std" THEN NewShapeStd(sfs)
    ELSE NewShapeOther

NewShape(sfs, scale) ==
    \E r \in {NewShapeOutcome(sfs, scale)} :
       /\ op' = "newShape"
       /\ err' = r.err
       /\ ret' = r.ret
       /\ UNCHANGED <<shapes, baseline, registered, X, modelVars, disk, lapack, winVars>>

\* ----------------------------------------------- vtkRenWin.setnumViewports
\* lines 274-276: every renderer gets its slice of the window, then
\* setBackground() colours every renderer
Layout(rs, n) ==
    [i \in 1..Len(rs) |->
        [viewport |-> <<NDivInt(Rat(i - 1), n), NDivInt(Rat(i), n)>>,
         background |-> "set"]]

RECURSIVE Grow(_, _)
\* lines 267-273, k iterations left; w is the window so far.  The lookup
\* of self.cams raises when the attribute was never assigned, after the
\* three statements before it have run.
Grow(w, k) ==
    IF k = 0 THEN w
    ELSE LET w1 == [w EXCEPT !.rens = Append(w.rens, NewRenderer),
                             !.axes = w.axes + 1,
                             !.renderers = w.renderers + 1]
         IN IF ~IsSet(w1.cams)
            THEN [w1 EXCEPT !.err = "AttributeError"]
            ELSE LET c == IF Val(w1.cams) < Len(w1.rens)
                          THEN Val(w1.cams) + 1 ELSE Val(w1.cams)
                 IN Grow([w1 EXCEPT !.cams = Some(c)], k - 1)

\* What one call of setnumViewports leaves behind.
SetnumViewportsOutcome(n) ==
    LET w == [err |-> "none", rens |-> rens, axes |-> axes, cams |-> cams,
              renderers |-> renderers]
        dif == n - Len(rens)
    IN IF dif = 0 THEN w
       ELSE IF dif < 0
       THEN [w EXCEPT !.rens = Layout(SubSeq(rens, 1, n), n),
                      !.renderers = renderers - (Len(rens) - n)]
       ELSE LET g == Grow(w, dif)
            IN IF g.err # "none" THEN g
               ELSE [g EXCEPT !.rens = Layout(g.rens, n)]

SetnumViewports(n) ==
    \E w \in {SetnumViewportsOutcome(n)} :
       /\ w.axes <= MaxAxes
       /\ rens' = w.rens
       /\ axes' = w.axes
       /\ cams' = w.cams
       /\ renderers' = w.renderers
       /\ op' = "setnumViewports"
       /\ err' = w.err
       /\ ret' = Unset
       /\ UNCHANGED pcaVars

\* ------------------------------------------------------ specification
DoSetBaseline == \E f \in BaselineFiles : SetBaseline(f)
DoImportFolder == \E path \in Dirs, unify \in BOOLEAN : ImportFolder(path, unify)
DoSliceFiles == \E height \in Heights : SliceFiles(height)
DoRegister == \E defect, legacy \in BOOLEAN : Register(defect, legacy)
DoPca == Pca
DoNewShape == \E sfs \in Coefs, scale \in Scales : NewShape(sfs, scale)

Next ==
    \/ DoSetBaseline
    \/ DoImportFolder
    \/ DoSliceFiles
    \/ DoRegister
    \/ DoPca
    \/ DoNewShape

Spec == Init /\ [][Next]_vars

SpecScenario == InitScenario /\ [][Next]_vars

\* a window on its own: the calls of setnumViewports with n >= 1
DoSetnumViewports == \E n \in 1..MaxViewports : SetnumViewports(n)

NextWin == DoSetnumViewports

SpecWin == InitWin /\ [][NextWin]_vars

\* ======================================================================
\* Properties
\* ======================================================================
\* number of modes of the stored basis
K == Val(pca_U).shape[2]

\* column n of the stored X (element n when X is a 1-D array)
ColumnOfX(n) ==
    IF Len(Val(X).shape) = 2
    THEN [d \in 1..Val(X).shape[1] |-> Val(X).rows[d][n]]
    ELSE Val(X).rows[n]

\* the registered set is the registration of the current corpus against the
\* current baseline
RegisteredCurrent ==
    /\ IsSet(registered)
    /\ Len(Val(registered)) = Len(shapes)
    /\ shapes # <<>> => IsSet(baseline)
    /\ \E defect \in BOOLEAN :
          \A n \in 1..Len(shapes) :
              Val(registered)[n] = registration(Val(baseline), shapes[n], defect)

\* X has one column per registered shape, column n being the flattened
\* vertex array of registered shape n
MatrixOfRegistered ==
    /\ IsSet(registered)
    /\ IsSet(X)
    /\ Val(X).shape[Len(Val(X).shape)] = Len(Val(registered))
    /\ \A n \in 1..Len(Val(registered)) :
          ColumnOfX(n) = Flatten(Val(registered)[n].vert)

\* the registered set is the registration of some corpus against the
\* current baseline
RegisteredAgainstBaseline ==
    /\ IsSet(registered)
    /\ IsSet(baseline)
    /\ \E path \in Dirs, unify, defect \in BOOLEAN :
          \/ Val(registered) =
                RegisterList(Val(baseline), ImportList(path, unify), defect)
          \/ \E h \in Heights :
                Val(registered) =
                    RegisterList(Val(baseline),
                                 [n \in 1..Len(ImportList(path, unify)) |->
                                     planarTrim(ImportList(path, unify)[n], h)],
                                 defect)

\* the stored mean is the mean of the stored X
ModelOfMatrix ==
    /\ IsSet(X)
    /\ Len(Val(X).shape) = 2
    /\ pca_mean = Some(MeanAxis1(Val(X)))

\* ---------------------------------------------------------------- C1
\* C1: fit is atomic: a pca call that raises leaves every model field
\* (pca_mean, pca_U, pca_S, pca_V, pc_weights, pc_stdevs) as it was before
\* the call.
C1_FitAtomic ==
    [][(op' = "pca" /\ err' # "none") => UNCHANGED modelVars]_vars

\* ---------------------------------------------------------------- C2
\* C2: model invalidation: newShape never returns a shape computed from a
\* model fitted against an earlier baseline or an earlier registered set.
C2_NoStaleSynthesis ==
    (op = "newShape" /\ IsSet(ret)) =>
        (RegisteredAgainstBaseline /\ MatrixOfRegistered /\ ModelOfMatrix)

ConvergentShapes ==
    SelectSeq(shapes, LAMBDA t : RegConverges(Val(baseline), t))

\* C4: non-strict failure policy: when registration fails for some shapes
\* of the corpus, register still completes and the registered set holds
\* exactly the shapes whose registration succeeded, in corpus order.
C4_FailedShapesDropped ==
    (/\ op = "register"
     /\ IsSet(baseline)
     /\ \E n \in 1..Len(shapes) : ~RegConverges(Val(baseline), shapes[n]))
    => /\ err = "none"
       /\ IsSet(registered)
       /\ \E defect \in BOOLEAN :
             Val(registered) =
                 RegisterList(Val(baseline), ConvergentShapes, defect)

\* ---------------------------------------------------------------- C5
\* C5: corpus order is preserved: after a register call that returns,
\* registered shape n is the registration of corpus shape n against the
\* baseline and column n of X is the flattened vertex array of registered
\* shape n.
C5_CorpusOrder ==
    (op = "register" /\ err = "none") =>
        (RegisteredCurrent /\ MatrixOfRegistered)

C5_Witness ==
    /\ op = "register"
    /\ err = "none"
    /\ Len(shapes) = 3
    /\ Len(Val(X).shape) = 2
    /\ Val(registered)[1] # Val(registered)[3]

\* ---------------------------------------------------------------- C6
\* C6: a registered set in which two shapes differ in vertex count is
\* fatal: register never returns normally having stored such a set.
C6_TopologyMismatchFatal ==
    (op = "register" /\ err = "none" /\ IsSet(registered))
    => ~Ragged(RegisterCols(Val(registered)))

\* ---------------------------------------------------------------- C7
\* C7: fewer than 2 registered shapes is rejected: a pca call that returns
\* normally was given an X of at least 2 columns.
C7_AtLeastTwoShapes ==
    (op = "pca" /\ err = "none") => Val(X).shape[2] >= 2

\* ---------------------------------------------------------------- C8
\* C8: on a fitted model, newShape with a coefficient vector longer than K
\* raises and returns no shape, in both scale modes.
C8_LongerRejected ==
    [][\A sfs \in Coefs, scale \in {"eigs", "std"} :
          (op' = "newShape" /\ IsSet(pca_U) /\ Len(sfs) > K
                            /\ NewShape(sfs, scale))
          => (err' # "none" /\ ret' = Unset)]_vars

\* ---------------------------------------------------------------- C9
ZeroPad(sfs, n) == [k \in 1..n |-> IF k <= Len(sfs) THEN sfs[k] ELSE Zero]

\* C9: on a fitted model, newShape with a coefficient vector of length
\* L < K gives what newShape gives for the vector zero-padded to length K.
C9_ShorterZeroPadded ==
    [][\A sfs \in Coefs, scale \in {"eigs", "std"} :
          (op' = "newShape" /\ IsSet(pca_U) /\ Len(sfs) < K
                            /\ NewShape(sfs, scale))
          => NewShape(ZeroPad(sfs, K), scale)]_vars

\* ---------------------------------------------------------------- C10
\* C10: on a fitted model, newShape with the all-zero vector of length K
\* returns exactly pca_mean, in both scale modes.
C10_ZerosGiveMean ==
    [][\A scale \in {"eigs", "std"} :
          (op' = "newShape" /\ IsSet(pca_U) /\ NewShape(Zeros(K), scale))
          => (err' = "none" /\ ret' = pca_mean)]_vars

\* ---------------------------------------------------------------- C11
\* sfs scaled mode by mode with the stored standard deviations
ScaledByStd(sfs) == [k \in 1..Len(sfs) |-> NMul(Val(pc_stdevs)[k], sfs[k])]

\* mean[d] + sum over k of basis[d, k] * c[k]
RawSum(c) ==
    [d \in 1..Val(pca_U).shape[1] |->
        NAdd(Val(pca_mean)[d],
             NSum([k \in 1..K |-> NMul(Val(pca_U).rows[d][k], c[k])]))]

\* C11: on a fitted model, for every coefficient vector c of length K,
\* newShape(c, 'eigs') returns mean[d] + sum_k basis[d,k]*c[k] in every
\* component d, and newShape(c, 'std') is newShape(c', 'eigs') with
\* c'[k] = pc_stdevs[k]*c[k].
C11_ScaleModes ==
    [][\A sfs \in Coefs :
          (op' = "newShape" /\ IsSet(pca_U) /\ Len(sfs) = K)
          => /\ NewShape(sfs, "eigs") =>
                   (/\ err' = "none"
                    /\ Len(Val(pca_mean)) = Val(pca_U).shape[1]
                    /\ ret' = Some(RawSum(sfs)))
             /\ NewShape(sfs, "std") => NewShape(ScaledByStd(sfs), "eigs")]_vars

\* ---------------------------------------------------------------- C12
RECURSIVE MatchingFiles(_, _)
\* the names of a listing that end with ext, in listing order
MatchingFiles(fs, ext) ==
    IF fs = <<>> THEN <<>>
    ELSE IF EndsWith(Head(fs), ext)
    THEN <<Head(fs)>> \o MatchingFiles(Tail(fs), ext)
    ELSE MatchingFiles(Tail(fs), ext)

\* extensions a caller may want a corpus of
Extensions == {".stl", ".txt"}

\* C12 as stated: the corpus after an import is one mesh per file whose
\* name ends with the extension the caller asks for, whichever it is.
C12_MatchExtension ==
    [][\A path \in Dirs, unify \in BOOLEAN, ext \in Extensions :
          (op' = "importFolder" /\ ImportFolder(path, unify))
          => [n \in 1..Len(shapes') |-> shapes'[n].file]
                = MatchingFiles(ListDir(path), ext)]_vars

\* C12: after importFolder the corpus is exactly one mesh per file of the
\* directory whose name ends with .stl (the extension is fixed by the code),
\* in listing order, and nothing else: no file with another extension, no
\* mesh of an earlier import; the call returns normally with an empty
\* corpus when no file matches.
C12_ImportExact ==
    [][\A path \in Dirs, unify \in BOOLEAN :
          (op' = "importFolder" /\ ImportFolder(path, unify))
          => LET fs == MatchingFiles(ListDir(path), ".stl")
             IN /\ err' = "none"
                /\ Len(shapes') = Len(fs)
                /\ \A n \in 1..Len(fs) :
                      shapes'[n] = [file |-> fs[n], vert |-> FileVert(fs[n])]]_vars

C12_Witness ==
    /\ op = "importFolder"
    /\ Len(shapes) = 3
    /\ shapes[2].file = "c2.stl"
    /\ IsSet(registered)
    /\ Len(Val(registered)) = 2

\* ---------------------------------------------------------------- C17
\* C17: whenever a registered set and a data matrix are both stored, X has
\* one column per registered shape and column n is the flattened vertex
\* array of registered shape n.
C17_MatrixConsistent ==
    (IsSet(registered) /\ IsSet(X)) => MatrixOfRegistered

\* ---------------------------------------------------------------- C19
\* C19: register on a non-empty corpus with no baseline set, and pca with
\* no registered set ever stored, raise and leave every stored field as it
\* was.
C19_OutOfOrderRaises ==
    [][/\ (op' = "register" /\ shapes # <<>> /\ ~IsSet(baseline))
          => (err' = "AttributeError"
              /\ UNCHANGED <<shapes, baseline, registered, X, modelVars>>)
       /\ (op' = "pca" /\ ~IsSet(registered))
          => (err' = "AttributeError"
              /\ UNCHANGED <<shapes, baseline, registered, X, modelVars>>)]_vars

C19_Witness ==
    /\ op = "register"
    /\ err = "AttributeError"
    /\ shapes # <<>>
    /\ ~IsSet(baseline)
    /\ ~IsSet(registered)
    /\ ~IsSet(X)

\* ---------------------------------------------------------------- C20
\* C20: on a fitted model, newShape with a scale other than 'eigs' or
\* 'std' raises (UnboundLocalError), returns no shape and leaves the model
\* fields as they were.
C20_UnknownScaleRaises ==
    [][\A sfs \in Coefs :
          (op' = "newShape" /\ IsSet(pca_U) /\ NewShape(sfs, "other"))
          => (err' = "UnboundLocalError" /\ ret' = Unset
              /\ UNCHANGED modelVars)]_vars

C20_Witness ==
    /\ op = "newShape"
    /\ err = "UnboundLocalError"
    /\ IsSet(pca_U)
    /\ ret = Unset

\* ---------------------------------------------------------------- C14
\* C14: sliceFiles on an empty corpus is rejected with an error instead of
\* completing as a silent no-op.
C14_EmptyCorpusRejected ==
    (op = "sliceFiles" /\ shapes = <<>>) => err # "none"

C13_EmptyBaselineRejected ==
    [][\A f \in BaselineFiles :
          (op' = "setBaseline" /\ FileVert(f) = <<>> /\ SetBaseline(f))
          => (err' = "InvalidInputError" /\ baseline' = baseline)]_vars

\* ---------------------------------------------------------------- C18
\* the data matrix of the end-to-end scenario: the three 4-vertex shapes
ScenarioX ==
    NpArrayT(<<Flatten(FileVert("s1.stl")), Flatten(FileVert("s2.stl")),
               Flatten(FileVert("s3.stl"))>>)

\* C18: after a fit of a D x N matrix X, pca_mean has length D and
\* N * pca_mean[d] is the sum of row d of X for every d; for the three
\* shapes of the end-to-end scenario the x-coordinate of vertex 1 of the
\* mean (flattened index 4) is (1+2+1)/3 = 4/3.
C18_MeanIsRowAverage ==
    (op = "pca" /\ err = "none")
    => /\ Len(Val(pca_mean)) = Val(X).shape[1]
       /\ \A d \in 1..Val(X).shape[1] :
             NMul(Rat(Val(X).shape[2]), Val(pca_mean)[d])
                = NSum(Val(X).rows[d])
       /\ Val(X) = ScenarioX => Val(pca_mean)[4] = <<4, 3>>

C18_Witness ==
    /\ op = "pca"
    /\ err = "none"
    /\ Val(X) = ScenarioX
    /\ Val(pca_mean)[4] = <<4, 3>>
    /\ Val(pca_mean)[1] = Zero

\* ---------------------------------------------------------------- C16
\* |a| <= |b| for two finite numbers
NAbsLeq(a, b) == Abs(a[1]) * b[2] <= Abs(b[1]) * a[2]

\* the sign convention: the largest-magnitude component of column k of the
\* stored basis is positive
ColumnSignFixed(k) ==
    \E d \in 1..Val(pca_U).shape[1] :
       /\ \A e \in 1..Val(pca_U).shape[1] :
             NAbsLeq(Val(pca_U).rows[e][k], Val(pca_U).rows[d][k])
       /\ Val(pca_U).rows[d][k][1] > 0

\* C16: the basis a fit stores does not depend on the sign the
\* decomposition happens to return: after every successful fit each column
\* of pca_U obeys the sign convention.
C16_SignConvention ==
    (op = "pca" /\ err = "none") => \A k \in 1..K : ColumnSignFixed(k)

\* ---------------------------------------------------------------- C21
\* C21: from a new window and after any sequence of setnumViewports calls
\* with n >= 1, each call completes and the renderer list has exactly n
\* renderers, all of them held by the window.
C21_ViewportCount ==
    [][\A n \in 1..MaxViewports :
          (op' = "setnumViewports" /\ SetnumViewports(n))
          => (err' = "none" /\ Len(rens') = n /\ renderers' = n)]_vars

====
